---- MODULE Spec2Model ----
(***************************************************************************)
(* Model of the quarterly-report summariser: app/main.py run(),            *)
(* pipeline/chunker.py chunk_pages, pipeline/summariser.py                 *)
(* summarise_chunks and pipeline/ranker.py rank_points.                    *)
(*                                                                         *)
(* A Python str is a sequence of one-character strings.  The two bullet    *)
(* glyphs outside ASCII are the atoms "EN_DASH" and "BULLET".              *)
(***************************************************************************)
EXTENDS Integers, Sequences, FiniteSets, TLC

VARIABLES
    pc,             \* position in run() / chunk_pages / summarise_chunks
    args,           \* parsed command line: max_chars, overlap, dry_run
    pdf,            \* cleaned text of each page of the input PDF
    extract_calls,  \* number of calls of extract_pages
    error,          \* "" or the kind of the exception that ended the run
    pages,          \* chunk_pages: pages, a sequence of <<pnum, text>>
    max_chars,      \* chunk_pages: max_chars
    overlap,        \* chunk_pages: overlap
    chunks,         \* chunk_pages: chunks, records text/start/end
    buf,            \* chunk_pages: "".join(buf)
    start_p,        \* chunk_pages: start_p (0 is None)
    end_p,          \* chunk_pages: end_p (0 is None)
    size,           \* chunk_pages: size
    pi,             \* chunk_pages: index of the next page of the for loop
    cur,            \* history: indexes of the pages appended to buf
    held,           \* history: for each chunk, the pages appended to it
    bullets,        \* summarise_chunks: bullets
    ci,             \* summarise_chunks: index of the next chunk
    gen_log,        \* history: per chunk, the calls of client.generate
    points_file,    \* text of the latest file of points_output
    ranked          \* rank_points: ranked, records pt/val

vars == <<pc, args, pdf, extract_calls, error, pages, max_chars, overlap,
          chunks, buf, start_p, end_p, size, pi, cur, held, bullets, ci,
          gen_log, points_file, ranked>>

chunkVars == <<pages, max_chars, overlap, chunks, buf, start_p, end_p, size,
               pi, cur, held>>

sumVars == <<bullets, ci, gen_log>>

(***************************************************************************)
(* Bounds of the model.                                                    *)
(***************************************************************************)
MaxPages == 3
ShortLen == 150
MidLen == 700
LongLen == 1100
MaxPdfPages == 2
MaxLines == 3

(***************************************************************************)
(* Characters and strings.                                                 *)
(***************************************************************************)
Digits == <<"0", "1", "2", "3", "4", "5", "6", "7", "8", "9">>

IsDigit(c) == c \in {"0", "1", "2", "3", "4", "5", "6", "7", "8", "9"}

LowerLetters == {"a", "b", "c", "d", "e", "f", "g", "h", "i", "j", "k", "l",
                 "m", "n", "o", "p", "q", "r", "s", "t", "u", "v", "w", "x",
                 "y", "z"}

UpperToLower == [c \in {"A", "B", "C", "D", "E", "F", "G", "H", "I", "J", "K",
                        "L", "M", "N", "O", "P", "Q", "R", "S", "T", "U", "V",
                        "W", "X", "Y", "Z"} |->
    CASE c = "A" -> "a" [] c = "B" -> "b" [] c = "C" -> "c" [] c = "D" -> "d"
      [] c = "E" -> "e" [] c = "F" -> "f" [] c = "G" -> "g" [] c = "H" -> "h"
      [] c = "I" -> "i" [] c = "J" -> "j" [] c = "K" -> "k" [] c = "L" -> "l"
      [] c = "M" -> "m" [] c = "N" -> "n" [] c = "O" -> "o" [] c = "P" -> "p"
      [] c = "Q" -> "q" [] c = "R" -> "r" [] c = "S" -> "s" [] c = "T" -> "t"
      [] c = "U" -> "u" [] c = "V" -> "v" [] c = "W" -> "w" [] c = "X" -> "x"
      [] c = "Y" -> "y" [] c = "Z" -> "z"]

IsUpper(c) == c \in DOMAIN UpperToLower

IsLower(c) == c \in LowerLetters

\* regex \w
IsWord(c) == IsUpper(c) \/ IsLower(c) \/ IsDigit(c) \/ c = "_"

\* regex \s and str.strip()
IsSpace(c) == c \in {" ", "\n", "\t", "\r", "\f"}

\* str.lower()
Lower(s) == [i \in 1..Len(s) |-> IF IsUpper(s[i]) THEN UpperToLower[s[i]] ELSE s[i]]

\* str(n) for n >= 0
RECURSIVE Str(_)
Str(n) == IF n < 10 THEN <<Digits[n + 1]>>
          ELSE Str(n \div 10) \o <<Digits[(n % 10) + 1]>>

\* s[:n], the head taken where the tail is meant
HeadInsteadOfTail(s, n) == IF n >= Len(s) THEN s ELSE SubSeq(s, 1, n)

\* s[-n:] for n > 0
Tail_(s, n) == IF n >= Len(s) THEN s ELSE SubSeq(s, Len(s) - n + 1, Len(s))

\* t in s
Contains(s, t) ==
    \E off \in 0..(Len(s) - Len(t)) :
        /\ \A k \in 1..(IF Len(t) < 3 THEN Len(t) ELSE 3) : s[off + k] = t[k]
        /\ SubSeq(s, off + 1, off + Len(t)) = t

\* s.startswith(t) at 1-based position i
MatchAt(s, i, t) ==
    /\ i >= 1
    /\ i + Len(t) - 1 <= Len(s)
    /\ \A k \in 1..Len(t) : s[i + k - 1] = t[k]

(***************************************************************************)
(* pipeline/chunker.py                                                     *)
(***************************************************************************)
\* f"\n[p.{pnum}]\n{text}\n"
Part(pnum, text) ==
    <<"\n", "[", "p", ".">> \o Str(pnum) \o <<"]", "\n">> \o text \o <<"\n">>

MaxCharsTooSmall(mc) == mc <= 1000

OverlapOutOfRange(mc, ov) == ov < 0 \/ ov >= mc

\* buf = [part], the buffer replaced where it is meant to grow
BufReplaced(b, part) == part

\* buf.append(part), on the joined buffer
BufAppend(b, part) == b \o part

\* the two checks at the head of chunk_pages
ChunkCheck ==
    /\ pc = "chunk_check"
    /\ IF MaxCharsTooSmall(max_chars) \/ OverlapOutOfRange(max_chars, overlap)
       THEN /\ pc' = "error"
            /\ error' = "ValueError:chunk_pages"
       ELSE /\ pc' = "chunk_loop"
            /\ error' = error
    /\ chunks' = <<>>
    /\ buf' = <<>>
    /\ start_p' = 0
    /\ end_p' = 0
    /\ size' = 0
    /\ pi' = 1
    /\ cur' = <<>>
    /\ held' = <<>>
    /\ UNCHANGED <<args, pdf, extract_calls, pages, max_chars, overlap,
                   bullets, ci, gen_log, points_file, ranked>>

\* one iteration of "for pnum, text in pages"
ChunkPage ==
    /\ pc = "chunk_loop"
    /\ pi <= Len(pages)
    /\ LET pnum == pages[pi][1]
           text == pages[pi][2]
           part == Part(pnum, text)
           part_len == Len(part)
           start1 == IF buf = <<>> THEN pnum ELSE start_p
           close == size + part_len > max_chars /\ buf # <<>>
           joined == buf
           tail == IF overlap # 0 THEN Tail_(joined, overlap) ELSE <<>>
           buf1 == IF close THEN tail ELSE buf
           size1 == IF close THEN Len(tail) ELSE size
           start2 == IF close /\ tail = <<>> THEN pnum ELSE start1
       IN  /\ chunks' = IF close
                        THEN Append(chunks,
                                 [text |-> joined, start |-> start1,
                                  end |-> IF end_p # 0 THEN end_p ELSE start1])
                        ELSE chunks
           /\ held' = IF close THEN Append(held, cur) ELSE held
           /\ cur' = IF close THEN <<pi>> ELSE Append(cur, pi)
           /\ buf' = BufAppend(buf1, part)
           /\ size' = size1 + part_len
           /\ start_p' = start2
           /\ end_p' = pnum
    /\ pi' = pi + 1
    /\ UNCHANGED <<pc, args, pdf, extract_calls, error, pages, max_chars,
                   overlap, bullets, ci, gen_log, points_file, ranked>>

\* the code after the loop: the last buffer becomes the last chunk
ChunkFinish ==
    /\ pc = "chunk_loop"
    /\ pi > Len(pages)
    /\ LET sp == IF start_p # 0 THEN start_p ELSE 1
       IN  IF buf # <<>>
           THEN /\ chunks' = Append(chunks,
                                 [text |-> buf, start |-> sp,
                                  end |-> IF end_p # 0 THEN end_p ELSE sp])
                /\ held' = Append(held, cur)
           ELSE /\ chunks' = chunks
                /\ held' = held
    /\ pc' = "chunked"
    /\ UNCHANGED <<args, pdf, extract_calls, error, pages, max_chars, overlap,
                   buf, start_p, end_p, size, pi, cur, bullets, ci, gen_log,
                   points_file, ranked>>

(***************************************************************************)
(* Inputs of the chunker.                                                  *)
(***************************************************************************)
Alphabet == <<"a", "b", "c", "d", "e", "f", "g">>

Filler(n) == [i \in 1..n |-> Alphabet[(i % 7) + 1]]

ChunkTexts == {Filler(ShortLen), Filler(MidLen), Filler(LongLen)}

PageNums == {1, 2, 9, 10}

ChunkConfigs == {<<1001, 0>>, <<1001, 200>>, <<1001, 1000>>, <<3000, 200>>,
                 <<1000, 200>>, <<1001, 1001>>, <<3000, 0 - 1>>}

NonDecreasing(ps) == \A i \in 1..(Len(ps) - 1) : ps[i][1] <= ps[i + 1][1]

PageSeqs(n) == {ps \in [1..n -> PageNums \X ChunkTexts] : NonDecreasing(ps)}

InitChunk ==
    /\ pc = "chunk_check"
    /\ args = [max_chars |-> 0, overlap |-> 0, dry_run |-> TRUE]
    /\ pdf = <<>>
    /\ extract_calls = 0
    /\ error = ""
    /\ \E n \in 1..MaxPages : pages \in PageSeqs(n)
    /\ \E c \in ChunkConfigs : max_chars = c[1] /\ overlap = c[2]
    /\ chunks = <<>>
    /\ buf = <<>>
    /\ start_p = 0
    /\ end_p = 0
    /\ size = 0
    /\ pi = 1
    /\ cur = <<>>
    /\ held = <<>>
    /\ bullets = <<>>
    /\ ci = 1
    /\ gen_log = <<>>
    /\ points_file = <<>>
    /\ ranked = <<>>

NextChunk == ChunkCheck \/ ChunkPage \/ ChunkFinish

SpecChunk == InitChunk /\ [][NextChunk]_vars

(***************************************************************************)
(* Properties of chunk_pages.                                              *)
(***************************************************************************)
PartOf(i) == Part(pages[i][1], pages[i][2])

\* C1: every chunk has at most max_chars characters, unless it holds a
\* single page whose formatted text alone is longer than max_chars; chunks
\* that start with an overlap tail included.
C1_ChunkWithinBudget ==
    \A n \in 1..Len(chunks) :
        \/ Len(chunks[n].text) <= max_chars
        \/ /\ Len(held[n]) = 1
           /\ Len(PartOf(held[n][1])) > max_chars

\* C2: with overlap > 0 the chunk after a closed chunk starts at the page
\* that produced the tail, the last page of the closed chunk; with
\* overlap = 0 it starts at the new page.
C2_StartPageIsTailPage ==
    \A n \in 1..(Len(chunks) - 1) :
        IF overlap > 0
        THEN chunks[n + 1].start = chunks[n].end
        ELSE chunks[n + 1].start = pages[held[n + 1][1]][1]

\* C3 as stated: with overlap > 0, chunk N+1 begins with exactly the last
\* overlap characters of chunk N, also when chunk N is shorter than overlap.
C3_ExactlyOverlapChars ==
    \A n \in 1..(Len(chunks) - 1) :
        overlap > 0 =>
            LET t == chunks[n].text
                u == chunks[n + 1].text
            IN  /\ Len(t) >= overlap
                /\ Len(u) >= overlap
                /\ SubSeq(u, 1, overlap) = SubSeq(t, Len(t) - overlap + 1, Len(t))

\* C3 amended: with overlap > 0, chunk N+1 begins with the last
\* min(overlap, len(chunk N)) characters of chunk N, and the formatted text
\* of its first own page follows them.
C3_OverlapIsSuffixOfPrevious ==
    \A n \in 1..(Len(chunks) - 1) :
        overlap > 0 =>
            LET t == chunks[n].text
                u == chunks[n + 1].text
                k == IF overlap < Len(t) THEN overlap ELSE Len(t)
            IN  /\ Len(u) >= k
                /\ SubSeq(u, 1, k) = SubSeq(t, Len(t) - k + 1, Len(t))
                /\ MatchAt(u, k + 1, PartOf(held[n + 1][1]))

C3_Witness ==
    /\ pc = "chunked"
    /\ overlap > 0
    /\ \E n \in 1..(Len(chunks) - 1) : Len(chunks[n].text) < overlap
    /\ \E n \in 1..(Len(chunks) - 1) : Len(chunks[n].text) > overlap

\* C4: every chunk has start_page <= end_page, and every input page number
\* lies in the page range of a chunk whose text contains the page's
\* formatted text.
C4_RangesCoverPages ==
    /\ \A n \in 1..Len(chunks) : chunks[n].start <= chunks[n].end
    /\ pc = "chunked" =>
           \A i \in 1..Len(pages) :
               \E n \in 1..Len(chunks) :
                   /\ chunks[n].start <= pages[i][1]
                   /\ pages[i][1] <= chunks[n].end
                   /\ Contains(chunks[n].text, PartOf(i))

C4_Witness ==
    /\ pc = "chunked"
    /\ Len(chunks) >= 2
    /\ overlap > 0
    /\ Len(pages) = 3
    /\ pages[1][1] + 1 < pages[2][1]
    /\ \E n \in 1..Len(chunks) : Len(held[n]) >= 2

(***************************************************************************)
(* More of str: ordering, strip, splitlines, re.sub(r"\s+", " ", s).      *)
(***************************************************************************)
\* the characters of the model in code point order
CodePoints == <<"\t", "\n", "\f", "\r", " ", "!", "\"", "#", "$", "%", "&",
                "'", "(", ")", "*", "+", ",", "-", ".", "/", "0", "1", "2",
                "3", "4", "5", "6", "7", "8", "9", ":", ";", "<", "=", ">",
                "?", "@", "A", "B", "C", "D", "E", "F", "G", "H", "I", "J",
                "K", "L", "M", "N", "O", "P", "Q", "R", "S", "T", "U", "V",
                "W", "X", "Y", "Z", "[", "\\", "]", "^", "_", "a", "b",
                "c", "d", "e", "f", "g", "h", "i", "j", "k", "l", "m", "n",
                "o", "p", "q", "r", "s", "t", "u", "v", "w", "x", "y", "z",
                "{", "|", "}", "~", "EN_DASH", "BULLET">>

Ord(c) == CHOOSE i \in 1..Len(CodePoints) : CodePoints[i] = c

SetMin(S) == CHOOSE x \in S : \A y \in S : x <= y

\* a < b on str
StrLess(a, b) ==
    LET m == IF Len(a) < Len(b) THEN Len(a) ELSE Len(b)
        D == {k \in 1..m : a[k] # b[k]}
    IN  IF D = {} THEN Len(a) < Len(b)
        ELSE Ord(a[SetMin(D)]) < Ord(b[SetMin(D)])

\* s.strip()
Strip(s) ==
    IF \A i \in 1..Len(s) : IsSpace(s[i]) THEN <<>>
    ELSE LET lo == CHOOSE i \in 1..Len(s) :
                       ~IsSpace(s[i]) /\ \A j \in 1..(i - 1) : IsSpace(s[j])
             hi == CHOOSE i \in 1..Len(s) :
                       ~IsSpace(s[i]) /\ \A j \in (i + 1)..Len(s) : IsSpace(s[j])
         IN  SubSeq(s, lo, hi)

\* s.rstrip(".")
RStripDots(s) ==
    IF \A i \in 1..Len(s) : s[i] = "." THEN <<>>
    ELSE LET hi == CHOOSE i \in 1..Len(s) :
                       s[i] # "." /\ \A j \in (i + 1)..Len(s) : s[j] = "."
         IN  SubSeq(s, 1, hi)

\* re.sub(r"\s+", " ", s)
Collapse(s) ==
    LET marked == [i \in 1..Len(s) |->
                      <<s[i], i = 1 \/ ~IsSpace(s[i - 1])>>]
        kept == SelectSeq(marked, LAMBDA m : ~IsSpace(m[1]) \/ m[2])
    IN  [j \in 1..Len(kept) |-> IF IsSpace(kept[j][1]) THEN " " ELSE kept[j][1]]

LineBreaks == {"\n", "\r", "\f"}

\* s.splitlines()
RECURSIVE SplitLines(_)
SplitLines(s) ==
    IF s = <<>> THEN <<>>
    ELSE LET B == {i \in 1..Len(s) : s[i] \in LineBreaks}
         IN  IF B = {} THEN <<s>>
             ELSE LET b == SetMin(B)
                      e == IF s[b] = "\r" /\ b < Len(s) /\ s[b + 1] = "\n"
                           THEN b + 1 ELSE b
                  IN  <<SubSeq(s, 1, b - 1)>> \o SplitLines(SubSeq(s, e + 1, Len(s)))

\* "\n".join(pieces) + ("\n" if pieces else "")
RECURSIVE JoinLines(_)
JoinLines(pieces) ==
    IF pieces = <<>> THEN <<>>
    ELSE Head(pieces) \o <<"\n">> \o JoinLines(Tail(pieces))

RECURSIVE Flatten(_)
Flatten(ss) == IF ss = <<>> THEN <<>> ELSE Head(ss) \o Flatten(Tail(ss))

\* the stable sort of list.sort and sorted: B holds the pairs <<i, j>> of
\* positions whose keys compare seq[i] before seq[j], and the input order
\* decides between the others
StableSort(seq, B) ==
    LET n == Len(seq)
        rank == [i \in 1..n |->
                    1 + Cardinality({j \in 1..n :
                            /\ j # i
                            /\ \/ <<j, i>> \in B
                               \/ <<i, j>> \notin B /\ j < i})]
    IN  [p \in 1..n |-> seq[CHOOSE i \in 1..n : rank[i] = p]]

Reverse(seq) == [i \in 1..Len(seq) |-> seq[Len(seq) + 1 - i]]

(***************************************************************************)
(* pipeline/summariser.py                                                  *)
(***************************************************************************)
BulletGlyphs == {"-", "EN_DASH", "BULLET", "*"}

\* _BULLET_LINE.match(ln).group("pt").strip(), <<>> when ln does not match
BulletPt(ln) ==
    LET N == {i \in 1..Len(ln) : ~IsSpace(ln[i])}
    IN  IF N = {} THEN <<>>
        ELSE LET i0 == SetMin(N)
                 ND == {i \in i0..Len(ln) : ~IsDigit(ln[i])}
                 r == IF ND = {} THEN Len(ln) + 1 - i0 ELSE SetMin(ND) - i0
                 after == IF ln[i0] \in BulletGlyphs THEN i0 + 1
                          ELSE IF /\ r >= 1
                                  /\ r <= 3
                                  /\ i0 + r <= Len(ln)
                                  /\ ln[i0 + r] \in {".", ")"}
                               THEN i0 + r + 1
                               ELSE 0
             IN  IF after = 0 \/ after > Len(ln) THEN <<>>
                 ELSE IF ~IsSpace(ln[after]) THEN <<>>
                 ELSE Strip(SubSeq(ln, after + 1, Len(ln)))

_extract_bullets(raw) ==
    LET pts == [i \in 1..Len(SplitLines(raw)) |-> BulletPt(SplitLines(raw)[i])]
        hits == SelectSeq(pts, LAMBDA pt : pt # <<>>)
    IN  [i \in 1..Len(hits) |-> <<"-", " ">> \o Collapse(hits[i])]

\* _SENTENCE matches the character at position i
SentenceBreakAt(s, i) ==
    /\ i >= 2
    /\ IsSpace(s[i])
    /\ s[i - 1] \in {".", "?", "!"}
    /\ ~(/\ i >= 5
         /\ IsWord(s[i - 4])
         /\ s[i - 3] = "."
         /\ IsWord(s[i - 2])
         /\ s[i - 1] # "\n")
    /\ ~(/\ i >= 4
         /\ IsUpper(s[i - 3])
         /\ IsLower(s[i - 2])
         /\ s[i - 1] = ".")

\* re.split on one-character matches at the positions of B
RECURSIVE SplitAt(_, _)
SplitAt(s, B) ==
    IF B = {} THEN <<s>>
    ELSE LET b == SetMin(B)
         IN  <<SubSeq(s, 1, b - 1)>>
                 \o SplitAt(SubSeq(s, b + 1, Len(s)), {p - b : p \in B \ {b}})

FallbackKeywords == {<<"y", "o", "y">>, <<"q", "o", "q">>,
                     <<"g", "u", "i", "d", "a", "n", "c", "e">>,
                     <<"r", "e", "v", "e", "n", "u", "e">>,
                     <<"r", "e", "t", "e", "n", "t", "i", "o", "n">>,
                     <<"m", "a", "r", "k", "e", "t", " ", "s", "h", "a", "r", "e">>,
                     <<"p", "r", "i", "c", "i", "n", "g">>,
                     <<"m", "a", "r", "g", "i", "n">>}

\* regex \b between positions i and i + 1 of s
WordBoundary(s, i) ==
    LET before == i >= 1 /\ IsWord(s[i])
        after == i + 1 <= Len(s) /\ IsWord(s[i + 1])
    IN  before # after

\* the score of a candidate sentence in _top_sentences, times ten
SentenceScore(s) ==
    LET pct == \E i \in 1..Len(s) :
                   \/ s[i] = "%" /\ WordBoundary(s, i)
                   \/ /\ MatchAt(s, i, <<"p", "p">>)
                      /\ WordBoundary(s, i - 1)
                      /\ WordBoundary(s, i + 1)
        money == \E i \in 1..Len(s) :
                     /\ s[i] = "$"
                     /\ \E j \in (i + 1)..Len(s) :
                            /\ IsDigit(s[j])
                            /\ \A k \in (i + 1)..(j - 1) : IsSpace(s[k])
        tokens == Lower(s)
        kw == \E w \in FallbackKeywords : Contains(tokens, w)
        nd == Cardinality({i \in 1..Len(s) : IsDigit(s[i])})
    IN  (IF pct THEN 30 ELSE 0) + (IF money THEN 20 ELSE 0)
            + (IF kw THEN 20 ELSE 0) + (IF nd < 5 THEN nd ELSE 5) * 3

FirstK(seq, k) == IF Len(seq) <= k THEN seq ELSE SubSeq(seq, 1, k)

_top_sentences(text, k) ==
    LET candidates == SplitAt(text, {i \in 1..Len(text) : SentenceBreakAt(text, i)})
        stripped == [i \in 1..Len(candidates) |-> Strip(candidates[i])]
        nonEmpty == SelectSeq(stripped, LAMBDA c : c # <<>>)
        scored == [i \in 1..Len(nonEmpty) |->
                      <<SentenceScore(nonEmpty[i]), nonEmpty[i]>>]
        idx == 1..Len(scored)
        byText == StableSort(scored, {p \in idx \X idx :
                                         StrLess(scored[p[1]][2], scored[p[2]][2])})
        byScore == StableSort(byText, {p \in idx \X idx :
                                          byText[p[1]][1] > byText[p[2]][1]})
        top == FirstK(byScore, k)
    IN  [i \in 1..Len(top) |-> <<"-", " ">> \o Collapse(top[i][2])]

\* f" [p.{start_page if start_page == end_page else f'{start_page}-{end_page}'}]"
PageTag(start_page, end_page) ==
    <<" ", "[", "p", ".">>
        \o (IF start_page = end_page THEN Str(start_page)
            ELSE Str(start_page) \o <<"-">> \o Str(end_page))
        \o <<"]">>

\* re.search(r"\[p\.\d", s)
HasTagStart(s) ==
    \E i \in 1..Len(s) :
        /\ MatchAt(s, i, <<"[", "p", ".">>)
        /\ i + 3 <= Len(s)
        /\ IsDigit(s[i + 3])

_ensure_tag(s, tag) == IF HasTagStart(s) THEN s ELSE RStripDots(s) \o tag

\* the raw text of a chunk after the try/except around client.generate
RawOf(outcome) == IF outcome.ok THEN outcome.text ELSE <<>>

\* a failed chunk dropped: "except Exception: continue"
PointsSkippingFailure(chunk, outcome) ==
    IF ~outcome.ok THEN <<>>
    ELSE LET text_in == Strip(chunk.text)
             found == _extract_bullets(RawOf(outcome))
             pts == IF found = <<>> THEN _top_sentences(text_in, 6) ELSE found
         IN  [i \in 1..Len(pts) |-> _ensure_tag(pts[i], PageTag(chunk.start, chunk.end))]

\* the points one iteration of summarise_chunks adds for a non-empty chunk
PointsOfChunk(chunk, outcome) ==
    LET text_in == Strip(chunk.text)
        found == _extract_bullets(RawOf(outcome))
        pts == IF found = <<>> THEN _top_sentences(text_in, 6) ELSE found
    IN  [i \in 1..Len(pts) |-> _ensure_tag(pts[i], PageTag(chunk.start, chunk.end))]

\* summarise_chunks up to the loop, as run() calls it
StartSummarise ==
    /\ pc = "chunked"
    /\ ~args.dry_run
    /\ pc' = "summarise"
    /\ bullets' = <<>>
    /\ ci' = 1
    /\ gen_log' = <<>>
    /\ UNCHANGED <<args, pdf, extract_calls, error, chunkVars, points_file, ranked>>

\* what client.generate does: it fails, or returns text
RawTexts == {
    <<"-", " ", "R", "e", "v", "e", "n", "u", "e", " ", "g", "r", "e", "w", " ", "1", "2", "%", ".", "\n", "S", "o", "m", "e", " ", "n", "o", "n", "-", "b", "u", "l", "l", "e", "t", " ", "n", "a", "r", "r", "a", "t", "i", "o", "n", ".">>,
    <<"*", " ", "M", "a", "r", "g", "i", "n", " ", "r", "o", "s", "e", " ", "[", "p", ".", "2", "]", " ", "o", "n", " ", "p", "r", "i", "c", "i", "n", "g", "\n", "2", ")", " ", "C", "o", "s", "t", "s", " ", "f", "e", "l", "l", " ", "3", "p", "p">>,
    <<"-", " ", "S", "e", "e", " ", "[", "p", ".", "3", " ", "f", "o", "r", " ", "r", "e", "t", "e", "n", "t", "i", "o", "n">>,
    <<"N", "o", "t", "h", "i", "n", "g", " ", "l", "i", "s", "t", "e", "d", " ", "h", "e", "r", "e">>}

GenOutcomes == {[ok |-> FALSE, text |-> <<>>]}
                   \cup {[ok |-> TRUE, text |-> t] : t \in RawTexts}

\* one iteration of "for idx, (chunk_text, start_page, end_page) in chunks"
SummariseChunk ==
    /\ pc = "summarise"
    /\ ci <= Len(chunks)
    /\ IF Strip(chunks[ci].text) = <<>>
       THEN UNCHANGED <<bullets, gen_log>>
       ELSE \E outcome \in GenOutcomes :
                /\ bullets' = bullets \o PointsOfChunk(chunks[ci], outcome)
                /\ gen_log' = Append(gen_log,
                                  [chunk |-> ci, ok |-> outcome.ok,
                                   fallback |-> _extract_bullets(RawOf(outcome)) = <<>>,
                                   pts |-> PointsOfChunk(chunks[ci], outcome)])
    /\ ci' = ci + 1
    /\ UNCHANGED <<pc, args, pdf, extract_calls, error, chunkVars, points_file, ranked>>

\* summarise_chunks returns and run() writes the points file
WritePoints ==
    /\ pc = "summarise"
    /\ ci > Len(chunks)
    /\ points_file' = JoinLines(bullets)
    /\ pc' = "rank"
    /\ UNCHANGED <<args, pdf, extract_calls, error, chunkVars, sumVars, ranked>>

(***************************************************************************)
(* pipeline/ranker.py                                                      *)
(***************************************************************************)
Kpis == {<<"r", "e", "v", "e", "n", "u", "e">>,
         <<"m", "a", "r", "k", "e", "t", " ", "s", "h", "a", "r", "e">>,
         <<"r", "e", "t", "e", "n", "t", "i", "o", "n">>,
         <<"a", "w", "a", "r", "e", "n", "e", "s", "s">>,
         <<"g", "u", "i", "d", "a", "n", "c", "e">>,
         <<"c", "u", "s", "t", "o", "m", "e", "r", "s">>,
         <<"g", "r", "o", "w", "t", "h">>,
         <<"q", "o", "q">>, <<"y", "o", "y">>}

\* the first positions of the matches of \d+ in s
DigitRuns(s) == {i \in 1..Len(s) : IsDigit(s[i]) /\ (i = 1 \/ ~IsDigit(s[i - 1]))}

\* the position after the run of digits that starts at i
RunEnd(s, i) ==
    LET ND == {j \in i..Len(s) : ~IsDigit(s[j])}
    IN  IF ND = {} THEN Len(s) + 1 ELSE SetMin(ND)

\* score_value; every term is a whole number, and so is the rounded sum
score_value(point) ==
    LET nums == Cardinality(DigitRuns(point))
        pct == Cardinality({i \in DigitRuns(point) :
                   \/ MatchAt(point, RunEnd(point, i), <<"%">>)
                   \/ /\ i > 1
                      /\ point[i - 1] \in {"+", "-"}
                      /\ MatchAt(point, RunEnd(point, i), <<"p", "p">>)})
        money == \E i \in 1..(Len(point) - 1) :
                     point[i] = "$" /\ IsDigit(point[i + 1])
        text == Lower(point)
        kpi == Cardinality({k \in Kpis : Contains(text, k)})
    IN  (IF nums < 5 THEN nums ELSE 5) * 5 + 10 * pct
            + (IF money THEN 15 ELSE 0) + 5 * kpi

\* scored.sort(key=...) followed by reverse(), which turns ties around
SortedAscendingThenReversed(scored) ==
    Reverse(StableSort(scored, {p \in (1..Len(scored)) \X (1..Len(scored)) :
                                   scored[p[1]].val < scored[p[2]].val}))

\* sorted(scored, key=lambda x: x[1], reverse=True)
SortedByValue(scored) ==
    StableSort(scored, {p \in (1..Len(scored)) \X (1..Len(scored)) :
                           scored[p[1]].val > scored[p[2]].val})

\* no file in points_output
NoFile == <<"NoFile">>

\* the non-empty points rank_points reads from the file
PointsRead(file) ==
    LET raw == SplitLines(file)
        stripped == [i \in 1..Len(raw) |-> Strip(raw[i])]
    IN  SelectSeq(stripped, LAMBDA ln : ln # <<>>)

\* the ranking step of run(): rank_points, its exception only a warning
RankPoints ==
    /\ pc = "rank"
    /\ IF points_file = NoFile
       THEN ranked' = ranked
       ELSE LET points == PointsRead(points_file)
                scored == [i \in 1..Len(points) |->
                              [pt |-> points[i], val |-> score_value(points[i])]]
            IN  ranked' = SortedByValue(scored)
    /\ pc' = "done"
    /\ UNCHANGED <<args, pdf, extract_calls, error, chunkVars, sumVars, points_file>>

(***************************************************************************)
(* app/main.py                                                             *)
(***************************************************************************)
\* ensure_positive_int raises
EnsurePositiveIntFails(val, min_val) == val < min_val

\* "Validate numbers" in run()
Validate ==
    /\ pc = "validate"
    /\ IF \/ EnsurePositiveIntFails(args.max_chars, 1000)
          \/ EnsurePositiveIntFails(args.overlap, 0)
       THEN /\ pc' = "error"
            /\ error' = "ValueError:run"
       ELSE /\ pc' = "extract"
            /\ error' = error
    /\ UNCHANGED <<args, pdf, extract_calls, chunkVars, sumVars, points_file, ranked>>

\* pages = extract_pages(pdf_path), then the call of chunk_pages
ExtractPages ==
    /\ pc = "extract"
    /\ extract_calls' = extract_calls + 1
    /\ IF pdf = <<>>
       THEN /\ pc' = "error"
            /\ error' = "ValueError:extract_pages"
            /\ UNCHANGED <<pages, max_chars, overlap>>
       ELSE /\ pc' = "chunk_check"
            /\ error' = error
            /\ pages' = [i \in 1..Len(pdf) |-> <<i, pdf[i]>>]
            /\ max_chars' = args.max_chars
            /\ overlap' = args.overlap
    /\ UNCHANGED <<args, pdf, chunks, buf, start_p, end_p, size, pi, cur, held,
                   sumVars, points_file, ranked>>

\* "if args.dry_run: ... return"
DryRunReturn ==
    /\ pc = "chunked"
    /\ args.dry_run
    /\ pc' = "done"
    /\ UNCHANGED <<args, pdf, extract_calls, error, chunkVars, sumVars,
                   points_file, ranked>>

(***************************************************************************)
(* Inputs of a run.                                                        *)
(***************************************************************************)
RevenueText == <<"R", "e", "v", "e", "n", "u", "e", " ", "u", "p", " ", "1", "0", "%", " ", "t", "o", " ", "$", "5", "0", "M">>

GuidanceText == <<"G", "u", "i", "d", "a", "n", "c", "e", " ", "r", "a", "i", "s", "e", "d", " ", "f", "o", "r", " ", "F", "Y", "2", "5">>

SentenceTail == <<".", " ", "M", "a", "r", "g", "i", "n", " ", "f", "e", "l", "l", " ", "3", "%", " ", "v", "s", ".", " ", "p", "l", "a", "n", ".", " ", "U", ".", "S", ".", " ", "p", "r", "i", "c", "i", "n", "g", " ", "h", "e", "l", "d", "!", " ", "D", "r", ".", " ", "L", "e", "e", " ", "a", "g", "r", "e", "e", "d", "?", " ", "y", "e", "s">>

ReportLen == 440

ReportText == Filler(ReportLen) \o SentenceTail

PdfTexts == {RevenueText, GuidanceText, ReportText}

RunConfigs == {<<3000, 0>>, <<3000, 200>>, <<1001, 200>>, <<1000, 200>>,
               <<999, 200>>, <<3000, 3000>>, <<3000, 0 - 1>>}

Init ==
    /\ pc = "validate"
    /\ \E c \in RunConfigs, d \in BOOLEAN :
           args = [max_chars |-> c[1], overlap |-> c[2], dry_run |-> d]
    /\ \E n \in 0..MaxPdfPages : pdf \in [1..n -> PdfTexts]
    /\ extract_calls = 0
    /\ error = ""
    /\ pages = <<>>
    /\ max_chars = 0
    /\ overlap = 0
    /\ chunks = <<>>
    /\ buf = <<>>
    /\ start_p = 0
    /\ end_p = 0
    /\ size = 0
    /\ pi = 1
    /\ cur = <<>>
    /\ held = <<>>
    /\ bullets = <<>>
    /\ ci = 1
    /\ gen_log = <<>>
    /\ points_file = <<>>
    /\ ranked = <<>>

Next ==
    \/ Validate
    \/ ExtractPages
    \/ ChunkCheck
    \/ ChunkPage
    \/ ChunkFinish
    \/ DryRunReturn
    \/ StartSummarise
    \/ SummariseChunk
    \/ WritePoints
    \/ RankPoints

Spec == Init /\ [][Next]_vars

(***************************************************************************)
(* Inputs of the ranking step alone.                                       *)
(***************************************************************************)
RankLines == {
    <<"-", " ", "R", "e", "v", "e", "n", "u", "e", " ", "g", "r", "e", "w", " ", "1", "5", "%", " ", "t", "o", " ", "$", "2", "M", " ", "[", "p", ".", "1", "]">>,
    <<"-", " ", "G", "u", "i", "d", "a", "n", "c", "e", " ", "r", "a", "i", "s", "e", "d", " ", "[", "p", ".", "2", "]">>,
    <<"-", " ", "R", "e", "t", "e", "n", "t", "i", "o", "n", " ", "s", "t", "e", "a", "d", "y", " ", "[", "p", ".", "3", "]">>,
    <<"-", " ", "T", "h", "i", "n", "g", "s", " ", "w", "e", "r", "e", " ", "f", "i", "n", "e", " ", "[", "p", ".", "4", "]">>,
    <<" ", " ", "-", " ", "G", "r", "o", "w", "t", "h", " ", "o", "f", " ", "8", "p", "p", ",", " ", "+", "2", "p", "p", " ", "Y", "o", "Y", " ", "[", "p", ".", "5", "]", " ">>,
    <<" ">>}

InitRank ==
    /\ pc = "rank"
    /\ args = [max_chars |-> 3000, overlap |-> 200, dry_run |-> FALSE]
    /\ pdf = <<>>
    /\ extract_calls = 0
    /\ error = ""
    /\ pages = <<>>
    /\ max_chars = 0
    /\ overlap = 0
    /\ chunks = <<>>
    /\ buf = <<>>
    /\ start_p = 0
    /\ end_p = 0
    /\ size = 0
    /\ pi = 1
    /\ cur = <<>>
    /\ held = <<>>
    /\ bullets = <<>>
    /\ ci = 1
    /\ gen_log = <<>>
    /\ \/ points_file = NoFile
       \/ \E n \in 0..MaxLines : \E ls \in [1..n -> RankLines] :
              points_file = JoinLines(ls)
    /\ ranked = <<>>

NextRank == RankPoints

SpecRank == InitRank /\ [][NextRank]_vars

(***************************************************************************)
(* Properties of summarise_chunks, run() and rank_points.                  *)
(***************************************************************************)
EndsWith(s, t) == Len(s) >= Len(t) /\ MatchAt(s, Len(s) - Len(t) + 1, t)

\* the position of the "]" of a tag [p.N] or [p.N-M] that starts at i, or 0
TagEndAt(s, i) ==
    IF ~(MatchAt(s, i, <<"[", "p", ".">>) /\ i + 3 <= Len(s) /\ IsDigit(s[i + 3]))
    THEN 0
    ELSE LET e1 == RunEnd(s, i + 3)
         IN  IF MatchAt(s, e1, <<"]">>) THEN e1
             ELSE IF MatchAt(s, e1, <<"-">>) /\ e1 + 1 <= Len(s) /\ IsDigit(s[e1 + 1])
                  THEN LET e2 == RunEnd(s, e1 + 1)
                       IN  IF MatchAt(s, e2, <<"]">>) THEN e2 ELSE 0
                  ELSE 0

TagStarts(s) == {i \in 1..Len(s) : TagEndAt(s, i) # 0}

\* C5: every point of summarise_chunks, from either path, holds exactly one
\* page tag [p.N] or [p.N-M], and the tag is the end of the point.
C5_OneTagAtTheEnd ==
    \A k \in 1..Len(bullets) :
        /\ Cardinality(TagStarts(bullets[k])) = 1
        /\ \E i \in TagStarts(bullets[k]) : TagEndAt(bullets[k], i) = Len(bullets[k])

\* C6: a chunk whose raw text has no bullet line yields at most 6 points,
\* each tagged with the page range of the chunk.
C6_FallbackPointsCarryChunkRange ==
    \A k \in 1..Len(gen_log) :
        gen_log[k].fallback =>
            /\ Len(gen_log[k].pts) <= 6
            /\ \A j \in 1..Len(gen_log[k].pts) :
                   EndsWith(gen_log[k].pts[j],
                            PageTag(chunks[gen_log[k].chunk].start,
                                    chunks[gen_log[k].chunk].end))

\* C7: summarise_chunks never aborts and never retries; a chunk whose
\* generation call fails takes the fallback path as with an empty raw text,
\* every later chunk is processed, and the points are in chunk order.
C7_FailureIsEmptyRawOutput ==
    /\ gen_log # <<>> => pc \in {"summarise", "rank", "done"}
    /\ \A k \in 1..Len(gen_log) : gen_log[k].chunk = k
    /\ pc = "summarise" => Len(gen_log) = ci - 1
    /\ (pc \in {"rank", "done"} /\ ~args.dry_run) => Len(gen_log) = Len(chunks)
    /\ bullets = Flatten([k \in 1..Len(gen_log) |-> gen_log[k].pts])
    /\ \A k \in 1..Len(gen_log) :
           ~gen_log[k].ok =>
               LET sentences == _top_sentences(Strip(chunks[k].text), 6)
                   tag == PageTag(chunks[k].start, chunks[k].end)
               IN  /\ gen_log[k].fallback
                   /\ gen_log[k].pts =
                          [j \in 1..Len(sentences) |-> _ensure_tag(sentences[j], tag)]

C7_Witness ==
    /\ pc = "done"
    /\ Len(gen_log) >= 2
    /\ ~gen_log[1].ok
    /\ gen_log[1].pts # <<>>
    /\ gen_log[2].ok
    /\ ~gen_log[2].fallback

\* C8: an invalid chunking configuration (max_chars at or below 1000,
\* overlap < 0, overlap >= max_chars) ends the run before any page is
\* extracted, any chunk produced or any generation call made.
C8_InvalidConfigFailsBeforeProcessing ==
    (\/ args.max_chars <= 1000
     \/ args.overlap < 0
     \/ args.overlap >= args.max_chars) =>
        /\ extract_calls = 0
        /\ chunks = <<>>
        /\ gen_log = <<>>

RevenuePoint == <<"-", " ">> \o RevenueText \o <<" ", "[", "p", ".", "1", "-", "2", "]">>

GuidancePoint == <<"-", " ">> \o GuidanceText \o <<" ", "[", "p", ".", "1", "-", "2", "]">>

\* C10: the two-page scenario with max_chars=3000, overlap=0 and a failed
\* generation call gives one chunk for pages 1-2, the two page sentences as
\* two points tagged [p.1-2], and the revenue point ranked first.
C10_EndToEndScenario ==
    (/\ pc = "done"
     /\ pdf = <<RevenueText, GuidanceText>>
     /\ args = [max_chars |-> 3000, overlap |-> 0, dry_run |-> FALSE]
     /\ Len(gen_log) = 1
     /\ ~gen_log[1].ok) =>
        /\ Len(chunks) = 1
        /\ chunks[1].start = 1
        /\ chunks[1].end = 2
        /\ Len(bullets) = 2
        /\ {bullets[1], bullets[2]} = {RevenuePoint, GuidancePoint}
        /\ Len(ranked) = 2
        /\ ranked[1].pt = RevenuePoint
        /\ ranked[2].pt = GuidancePoint

\* C9: the ranking is a permutation of the non-empty points of the file,
\* ordered by score_value descending, and points of equal score keep their
\* input order.
C9_RankingIsStableDescending ==
    (pc = "done" /\ points_file # NoFile) =>
        LET points == PointsRead(points_file)
            n == Len(points)
        IN  /\ Len(ranked) = n
            /\ \E f \in [1..n -> 1..n] :
                   /\ \A i, j \in 1..n : i # j => f[i] # f[j]
                   /\ \A i \in 1..n :
                          /\ ranked[i].pt = points[f[i]]
                          /\ ranked[i].val = score_value(points[f[i]])
                   /\ \A i \in 1..(n - 1) :
                          \/ ranked[i].val > ranked[i + 1].val
                          \/ /\ ranked[i].val = ranked[i + 1].val
                             /\ f[i] < f[i + 1]

C9_Witness ==
    /\ pc = "done"
    /\ points_file # NoFile
    /\ Len(ranked) = 3
    /\ ranked[1].val > ranked[2].val
    /\ ranked[2].val = ranked[3].val
    /\ ranked[2].pt # ranked[3].pt
    /\ ranked[1].pt # PointsRead(points_file)[1]

====
